---- MODULE Spec2Model ----
(***************************************************************************)
(* Model of DynamicLinkQRGenerator (index.js), its Timer (timer.js, the    *)
(* listing at the end of README.md), generateUniqueLink                    *)
(* (src/linkGenerator.js) and generateQRCode (src/qrGenerator.js).         *)
(*                                                                         *)
(* A JavaScript value is a tuple: null is <<>>, a missing object is        *)
(* <<"undefined">>, a data URL is <<"data:image/png;base64", link>>, an    *)
(* Error is <<"Error", message, cause>>, an interval handle is             *)
(* <<instance, ordinal>>.  A string that is a reference is a record        *)
(* [type, scheme, rest, query], query being the sequence of its            *)
(* <<key, value>> parameters.                                              *)
(***************************************************************************)
EXTENDS Integers, Sequences, FiniteSets

VARIABLES apiLink, currentDataURL, timer, intervals, calls, clock,
          starts, lastCall, last, unhandled, process, completed

vars == <<apiLink, currentDataURL, timer, intervals, calls, clock,
          starts, lastCall, last, unhandled, process, completed>>

\* ---------------------------------------------------------------- bounds
MaxCalls == 2
MaxStarts == 2
MaxClock == 2
MaxQueryLen == 3

\* ---------------------------------------------------------------- values
Null == <<>>
Undefined == <<"undefined">>

RefUndefined == [type |-> "undefined", scheme |-> "", rest |-> "", query |-> <<>>]
RefEmpty == [type |-> "string", scheme |-> "", rest |-> "", query |-> <<>>]
RefNotUrl == [type |-> "string", scheme |-> "", rest |-> "not-a-valid-url", query |-> <<>>]
RefEndpoint == [type |-> "string", scheme |-> "https", rest |-> "//api.example.com/endpoint", query |-> <<>>]

BaseRefs == {RefUndefined, RefEmpty, RefNotUrl, RefEndpoint}

\* Variant of Falsy that lets the empty string through.
FalsyUndefinedOnly(ref) == ref.type = "undefined"

\* JavaScript truthiness of a reference: undefined and "" are falsy.
Falsy(ref) ==
  \/ ref.type = "undefined"
  \/ (ref.scheme = "" /\ ref.rest = "" /\ ref.query = <<>>)

\* new URL(s) with no base throws a TypeError unless s has a scheme.
UrlParses(ref) == ref.type = "string" /\ ref.scheme # ""

DigitChar(d) ==
  CASE d = 0 -> "0" [] d = 1 -> "1" [] d = 2 -> "2" [] d = 3 -> "3"
    [] d = 4 -> "4" [] d = 5 -> "5" [] d = 6 -> "6" [] d = 7 -> "7"
    [] d = 8 -> "8" [] d = 9 -> "9"

RECURSIVE NumToString(_)
NumToString(n) ==
  IF n < 10 THEN <<DigitChar(n)>>
  ELSE Append(NumToString(n \div 10), DigitChar(n % 10))

\* uuidv4(): a fresh identifier per call; n is the draw's ordinal.
Uuidv4(n) == <<"uuid-">> \o NumToString(n)

HasKey(q, k) == \E j \in 1..Len(q) : q[j][1] = k

FirstIdx(q, k) ==
  CHOOSE j \in 1..Len(q) : q[j][1] = k /\ \A m \in 1..(j - 1) : q[m][1] # k

\* Variant of URLSearchParams.set that behaves as append.
ParamsAppend(q, k, v) == Append(q, <<k, v>>)

\* URLSearchParams.set: overwrite the first pair named k and drop the
\* others, or append when there is none.
ParamsSet(q, k, v) ==
  IF HasKey(q, k)
  THEN LET f == FirstIdx(q, k) IN
       SubSeq(q, 1, f - 1) \o <<(<<k, v>>)>> \o
       SelectSeq(SubSeq(q, f + 1, Len(q)), LAMBDA p : p[1] # k)
  ELSE Append(q, <<k, v>>)

Error(msg, cause) == <<"Error", msg, cause>>

\* src/linkGenerator.js generateUniqueLink: threw tells whether it throws.
generateUniqueLink(ref, now, n) ==
  IF Falsy(ref)
  THEN [threw |-> TRUE, error |-> Error("API link is required", ""), value |-> RefUndefined]
  ELSE IF ~UrlParses(ref)
  THEN [threw |-> TRUE, error |-> Error("Invalid URL", ""), value |-> RefUndefined]
  ELSE [threw |-> FALSE, error |-> Null,
        value |-> [ref EXCEPT !.query =
                     ParamsSet(ParamsSet(ref.query, "timestamp", NumToString(now)),
                               "uuid", Uuidv4(n))]]

\* The options argument of QRCode.toDataURL: the fixed visual profile, and
\* the case of a call that passes none.
FixedProfile ==
  [given |-> TRUE, type |-> "image/png", width |-> 256, margin |-> 1,
   dark |-> "#000000", light |-> "#FFFFFF"]

MissingOptions ==
  [given |-> FALSE, type |-> "", width |-> 0, margin |-> 0, dark |-> "", light |-> ""]

\* src/qrGenerator.js line 5 calls QRCode.toDataURL(link): no second argument.
ToDataURLOptions == MissingOptions

\* QRCode.toDataURL(link) when the codec succeeds.
ToDataURL(link) == <<"data:image/png;base64", link>>

IsDataURL(v) == Len(v) = 2 /\ v[1] = "data:image/png;base64"
IsError(v) == Len(v) = 3 /\ v[1] = "Error"

\* ---------------------------------------------------------------- state
Objs == DOMAIN timer

\* Variant in which destroy() leaves the instance disposed.
ConstructedNotDestroyed(i) == timer[i] # Undefined /\ lastCall[i].op # "destroy"

Constructed(i) == timer[i] # Undefined

CallIds == 1..Len(calls)

CallsOf(i) == {c \in CallIds : calls[c].inst = i}

InFlight(i) == {c \in CallsOf(i) : calls[c].st \in {"encoding", "encoded", "encodeFailed"}}

Resolved(i) == {c \in CallsOf(i) : calls[c].st = "resolved"}

IntervalsOf(i) == {h \in intervals : h[1] = i}

getCurrent(i) == currentDataURL[i]

InitFor(S) ==
  /\ apiLink = [i \in S |-> RefUndefined]
  /\ currentDataURL = [i \in S |-> Undefined]
  /\ timer = [i \in S |-> Undefined]
  /\ intervals = {}
  /\ calls = <<>>
  /\ clock = 0
  /\ starts = [i \in S |-> 0]
  /\ lastCall = [i \in S |-> [op |-> "none", mark |-> 0]]
  /\ last = [op |-> "init", inst |-> 0, threw |-> FALSE]
  /\ unhandled = {}
  /\ process = "running"
  /\ completed = <<>>

Init == InitFor({1})

\* ---------------------------------------------------------------- Timer
\* Variant of clearInterval that cancels nothing.
clearIntervalNoop(ivs, h) == ivs

clearInterval(ivs, h) == ivs \ {h}

\* Variant of Timer.stop that forgets the handle without cancelling it.
TimerStopLeak(tm, ivs) == [timer |-> Null, intervals |-> ivs]

\* Variant of Timer.stop that cancels the interval but keeps the handle.
TimerStopKeepsHandle(tm, ivs) ==
  IF tm # Null
  THEN [timer |-> tm, intervals |-> clearInterval(ivs, tm)]
  ELSE [timer |-> tm, intervals |-> ivs]

\* Variant of Timer.stop for a handle kept in state shared by all timers:
\* it cancels every armed interval.
TimerStopAll(tm, ivs) ==
  IF tm # Null
  THEN [timer |-> Null, intervals |-> {}]
  ELSE [timer |-> tm, intervals |-> ivs]

\* Timer.stop: the new handle field and the runtime's armed intervals.
TimerStop(tm, ivs) ==
  IF tm # Null
  THEN [timer |-> Null, intervals |-> clearInterval(ivs, tm)]
  ELSE [timer |-> tm, intervals |-> ivs]

\* Variant of Timer.start that arms a new interval over the old one.
TimerStartNoStop(tm, ivs, h) ==
  [timer |-> h, intervals |-> ivs \cup {h}, immediate |-> 1]

\* Variant of Timer.start that only arms the interval.
TimerStartNoImmediate(tm, ivs, h) ==
  LET s == TimerStop(tm, ivs) IN
  [timer |-> h, intervals |-> s.intervals \cup {h}, immediate |-> 0]

\* Timer.start with h the handle setInterval returns: stop, one immediate
\* callback(), then arm.  immediate counts the immediate invocations.
TimerStart(tm, ivs, h) ==
  LET s == TimerStop(tm, ivs) IN
  [timer |-> h, intervals |-> s.intervals \cup {h}, immediate |-> 1]

\* Variant of Timer.start that arms the interval before the first call.
TimerStartThrowsArmed(tm, ivs, h) ==
  LET s == TimerStop(tm, ivs) IN
  [timer |-> h, intervals |-> s.intervals \cup {h}, immediate |-> 1]

\* Timer.start when callback() throws: stop() has run, the exception leaves
\* start() before setInterval is reached.
TimerStartThrows(tm, ivs, h) ==
  LET s == TimerStop(tm, ivs) IN
  [timer |-> s.timer, intervals |-> s.intervals, immediate |-> 1]

\* One invocation of an arbitrary action handed to a bare Timer.
ActionCall(i, origin, throws) ==
  [inst |-> i, origin |-> origin, holder |-> "none",
   link |-> RefUndefined, opts |-> MissingOptions,
   st |-> IF throws THEN "threw" ELSE "returned",
   result |-> Null]

\* ---------------------------------------------------------------- generate
\* Who holds the promise generate() returns: the caller of a manual call,
\* nobody for the callback () => this.generate() handed to the timer.
PromiseHolder(origin) == IF origin = "manual" THEN "caller" ELSE "none"

\* generate() up to its first await: the call it leaves behind.
GenerateCall(i, origin) ==
  LET fr == generateUniqueLink(apiLink[i], clock, Len(calls) + 1) IN
  [inst |-> i, origin |-> origin, holder |-> PromiseHolder(origin),
   link |-> fr.value, opts |-> ToDataURLOptions,
   st |-> IF fr.threw THEN "rejected" ELSE "encoding",
   result |-> IF fr.threw THEN fr.error ELSE Null]

\* generateOnce(ref) up to its first await: one freshen, one encode begun.
GenerateOnceCall(ref) ==
  LET fr == generateUniqueLink(ref, clock, Len(calls) + 1) IN
  [inst |-> 0, origin |-> "once", holder |-> "caller",
   link |-> fr.value, opts |-> ToDataURLOptions,
   st |-> IF fr.threw THEN "rejected" ELSE "encoding",
   result |-> IF fr.threw THEN fr.error ELSE Null]

\* Variant of generateOnce that runs freshen and encode twice.
OnceCallsTwice(ref) == <<GenerateOnceCall(ref), GenerateOnceCall(ref)>>

\* The calls one generateOnce(ref) starts.
OnceCalls(ref) == <<GenerateOnceCall(ref)>>

\* generateQRCode after its await: the data URL, or the wrapped error.
generateQRCode(rec, ok, msg) ==
  IF ok
  THEN [rec EXCEPT !.st = "encoded", !.result = ToDataURL(rec.link)]
  ELSE [rec EXCEPT !.st = "encodeFailed",
                   !.result = Error("Failed to generate QR code: ", msg)]

\* Variant of generate() that stores whatever the encoder left.
GenerateStoreAlways(cur, rec) == rec.result

\* Variant of generate() that returns the image without storing it.
GenerateStoreNever(cur, rec) == cur

\* Variant of generate() that drops its result once the timer is stopped.
GenerateStoreIfRunning(cur, rec) ==
  IF rec.st = "encoded" /\ timer[rec.inst] # Null THEN rec.result ELSE cur

\* Variant of generate() that keeps an image already stored.
GenerateStoreFirstWins(cur, rec) ==
  IF rec.st = "encoded" /\ cur = Null THEN rec.result ELSE cur

\* generate() after its await: what the current slot becomes.
GenerateStore(cur, rec) == IF rec.st = "encoded" THEN rec.result ELSE cur

GenerateSettle(rec) ==
  [rec EXCEPT !.st = IF rec.st = "encoded" THEN "resolved" ELSE "rejected"]

CodecMessages == {"The amount of data is too big to be stored in a QR Code"}

Step(op, i, threw) == last' = [op |-> op, inst |-> i, threw |-> threw]

\* ---------------------------------------------------------------- actions
\* new DynamicLinkQRGenerator(ref)
Construct(i, ref) ==
  /\ process = "running"
  /\ ~Constructed(i)
  /\ IF Falsy(ref)
     THEN /\ Step("construct", i, TRUE)
          /\ UNCHANGED <<apiLink, currentDataURL, timer, lastCall>>
     ELSE /\ apiLink' = [apiLink EXCEPT ![i] = ref]
          /\ currentDataURL' = [currentDataURL EXCEPT ![i] = Null]
          /\ timer' = [timer EXCEPT ![i] = Null]
          /\ lastCall' = [lastCall EXCEPT ![i] = [op |-> "construct", mark |-> 0]]
          /\ Step("construct", i, FALSE)
  /\ UNCHANGED <<intervals, calls, clock, starts, unhandled, process, completed>>

\* a manual generate() call
Generate(i) ==
  /\ process = "running"
  /\ Constructed(i)
  /\ Len(calls) < MaxCalls
  /\ calls' = Append(calls, GenerateCall(i, "manual"))
  /\ lastCall' = [lastCall EXCEPT ![i] = [op |-> "generate", mark |-> 0]]
  /\ Step("generate", i, FALSE)
  /\ UNCHANGED <<apiLink, currentDataURL, timer, intervals, clock, starts,
                 unhandled, process, completed>>

\* start(): this.timer.start(() => this.generate())
Start(i) ==
  /\ process = "running"
  /\ Constructed(i)
  /\ starts[i] < MaxStarts
  /\ Len(calls) < MaxCalls
  /\ LET r == TimerStart(timer[i], intervals, <<i, starts[i] + 1>>) IN
     /\ timer' = [timer EXCEPT ![i] = r.timer]
     /\ intervals' = r.intervals
     /\ calls' = IF r.immediate = 1
                 THEN Append(calls, GenerateCall(i, "immediate"))
                 ELSE calls
  /\ starts' = [starts EXCEPT ![i] = @ + 1]
  /\ lastCall' = [lastCall EXCEPT ![i] = [op |-> "start", mark |-> 0]]
  /\ Step("start", i, FALSE)
  /\ UNCHANGED <<apiLink, currentDataURL, clock, unhandled, process, completed>>

\* stop(): this.timer.stop()
Stop(i) ==
  /\ process = "running"
  /\ Constructed(i)
  /\ LET r == TimerStop(timer[i], intervals) IN
     /\ timer' = [timer EXCEPT ![i] = r.timer]
     /\ intervals' = r.intervals
  /\ lastCall' = [lastCall EXCEPT ![i] = [op |-> "stop", mark |-> Len(calls)]]
  /\ Step("stop", i, FALSE)
  /\ UNCHANGED <<apiLink, currentDataURL, calls, clock, starts, unhandled, process, completed>>

\* destroy(): this.timer.stop(); this.currentDataURL = null
Destroy(i) ==
  /\ process = "running"
  /\ Constructed(i)
  /\ LET r == TimerStop(timer[i], intervals) IN
     /\ timer' = [timer EXCEPT ![i] = r.timer]
     /\ intervals' = r.intervals
  /\ currentDataURL' = [currentDataURL EXCEPT ![i] = Null]
  /\ lastCall' = [lastCall EXCEPT ![i] = [op |-> "destroy", mark |-> 0]]
  /\ Step("destroy", i, FALSE)
  /\ UNCHANGED <<apiLink, calls, clock, starts, unhandled, process, completed>>

\* Variant in which a tick waits for the pending generate() calls.
TickDueSerialized(h) == h \in intervals /\ InFlight(h[1]) = {}

\* setInterval(callback, 30000): an armed interval fires at every period,
\* whatever the earlier callbacks left pending.
TickDue(h) == h \in intervals

\* a period elapses and the armed interval h runs its callback
Tick(h) ==
  /\ process = "running"
  /\ TickDue(h)
  /\ clock < MaxClock
  /\ Len(calls) < MaxCalls
  /\ clock' = clock + 1
  /\ calls' = Append(calls, GenerateCall(h[1], "periodic"))
  /\ Step("tick", h[1], FALSE)
  /\ UNCHANGED <<apiLink, currentDataURL, timer, intervals, starts, lastCall,
                 unhandled, process, completed>>

\* a period elapses with no interval armed
Elapse ==
  /\ process = "running"
  /\ intervals = {}
  /\ clock < MaxClock
  /\ clock' = clock + 1
  /\ Step("elapse", 0, FALSE)
  /\ UNCHANGED <<apiLink, currentDataURL, timer, intervals, calls, starts,
                 lastCall, unhandled, process, completed>>

\* QRCode.toDataURL settles and generateQRCode runs on
CodecSettle(c, ok, msg) ==
  /\ process = "running"
  /\ c \in CallIds
  /\ calls[c].st = "encoding"
  /\ calls' = [calls EXCEPT ![c] = generateQRCode(calls[c], ok, msg)]
  /\ Step("codec", calls[c].inst, FALSE)
  /\ UNCHANGED <<apiLink, currentDataURL, timer, intervals, clock, starts,
                 lastCall, unhandled, process, completed>>

\* generate() runs on after await generateQRCode(uniqueLink)
GenerateResume(c) ==
  /\ process = "running"
  /\ c \in CallIds
  /\ calls[c].st \in {"encoded", "encodeFailed"}
  /\ calls[c].origin # "once"
  /\ currentDataURL' = [currentDataURL EXCEPT ![calls[c].inst] =
                          GenerateStore(@, calls[c])]
  /\ calls' = [calls EXCEPT ![c] = GenerateSettle(calls[c])]
  /\ completed' = IF calls[c].st = "encoded" THEN Append(completed, c) ELSE completed
  /\ Step("resume", calls[c].inst, FALSE)
  /\ UNCHANGED <<apiLink, timer, intervals, clock, starts, lastCall,
                 unhandled, process>>

\* DynamicLinkQRGenerator.generateOnce(ref)
GenerateOnce(ref) ==
  /\ process = "running"
  /\ Len(calls) < MaxCalls
  /\ calls' = calls \o OnceCalls(ref)
  /\ Step("generateOnce", 0, FALSE)
  /\ UNCHANGED <<apiLink, currentDataURL, timer, intervals, clock, starts,
                 lastCall, unhandled, process, completed>>

\* generateOnce runs on after await generateQRCode(uniqueLink) and returns
GenerateOnceResume(c) ==
  /\ process = "running"
  /\ c \in CallIds
  /\ calls[c].st \in {"encoded", "encodeFailed"}
  /\ calls[c].origin = "once"
  /\ calls' = [calls EXCEPT ![c] = GenerateSettle(calls[c])]
  /\ Step("onceResume", 0, FALSE)
  /\ UNCHANGED <<apiLink, currentDataURL, timer, intervals, clock, starts,
                 lastCall, unhandled, process, completed>>

\* the promise of a rejected tick has no handler: the host raises
\* unhandledRejection, and either warns or terminates the process
UnhandledRejection(c, fatal) ==
  /\ process = "running"
  /\ c \in CallIds
  /\ calls[c].st = "rejected"
  /\ calls[c].holder = "none"
  /\ c \notin unhandled
  /\ unhandled' = unhandled \cup {c}
  /\ process' = IF fatal THEN "crashed" ELSE "running"
  /\ Step("unhandledRejection", calls[c].inst, FALSE)
  /\ UNCHANGED <<apiLink, currentDataURL, timer, intervals, calls, clock,
                 starts, lastCall, completed>>

Next ==
  \/ \E i \in Objs, ref \in BaseRefs : Construct(i, ref)
  \/ \E i \in Objs : Generate(i)
  \/ \E i \in Objs : Start(i)
  \/ \E i \in Objs : Stop(i)
  \/ \E i \in Objs : Destroy(i)
  \/ \E h \in intervals : Tick(h)
  \/ Elapse
  \/ \E c \in CallIds, ok \in BOOLEAN, msg \in CodecMessages : CodecSettle(c, ok, msg)
  \/ \E c \in CallIds : GenerateResume(c)
  \/ \E c \in CallIds, fatal \in BOOLEAN : UnhandledRejection(c, fatal)

Spec == Init /\ [][Next]_vars

\* ------------------------------------------------- the Timer on its own
\* Two bare timers, each after new Timer(): this.timer = null.
InitTimer ==
  /\ apiLink = [i \in {1, 2} |-> RefUndefined]
  /\ currentDataURL = [i \in {1, 2} |-> Undefined]
  /\ timer = [i \in {1, 2} |-> Null]
  /\ intervals = {}
  /\ calls = <<>>
  /\ clock = 0
  /\ starts = [i \in {1, 2} |-> 0]
  /\ lastCall = [i \in {1, 2} |-> [op |-> "none", mark |-> 0]]
  /\ last = [op |-> "init", inst |-> 0, threw |-> FALSE]
  /\ unhandled = {}
  /\ process = "running"
  /\ completed = <<>>

\* timer.start(action), the action returning or throwing synchronously
TimerStartCall(i, throws) ==
  /\ process = "running"
  /\ starts[i] < MaxStarts
  /\ Len(calls) < MaxCalls
  /\ LET h == <<i, starts[i] + 1>>
         r == IF throws THEN TimerStartThrows(timer[i], intervals, h)
                        ELSE TimerStart(timer[i], intervals, h) IN
     /\ timer' = [timer EXCEPT ![i] = r.timer]
     /\ intervals' = r.intervals
     /\ calls' = IF r.immediate = 1
                 THEN Append(calls, ActionCall(i, "immediate", throws))
                 ELSE calls
  /\ starts' = [starts EXCEPT ![i] = @ + 1]
  /\ lastCall' = [lastCall EXCEPT ![i] = [op |-> "start", mark |-> 0]]
  /\ Step("start", i, throws)
  /\ UNCHANGED <<apiLink, currentDataURL, clock, unhandled, process, completed>>

\* a period elapses and the interval h calls the action; an exception it
\* throws is uncaught, and the host reports it or terminates the process
TimerTick(h, throws, fatal) ==
  /\ process = "running"
  /\ TickDue(h)
  /\ clock < MaxClock
  /\ Len(calls) < MaxCalls
  /\ clock' = clock + 1
  /\ calls' = Append(calls, ActionCall(h[1], "periodic", throws))
  /\ process' = IF throws /\ fatal THEN "crashed" ELSE "running"
  /\ Step("tick", h[1], FALSE)
  /\ UNCHANGED <<apiLink, currentDataURL, timer, intervals, starts, lastCall,
                 unhandled, completed>>

NextTimer ==
  \/ \E i \in Objs, throws \in BOOLEAN : TimerStartCall(i, throws)
  \/ \E i \in Objs : Stop(i)
  \/ \E h \in intervals, throws \in BOOLEAN, fatal \in BOOLEAN : TimerTick(h, throws, fatal)
  \/ Elapse

SpecTimer == InitTimer /\ [][NextTimer]_vars

\* ------------------------------------------- freshening of query strings
\* The parameters a caller's reference may already carry.
QueryPairs == {<<"timestamp", <<"old">>>>, <<"uuid", <<"old">>>>, <<"k", <<"v">>>>}

QuerySeqs == UNION {[1..m -> QueryPairs] : m \in 0..MaxQueryLen}

QueryRefs == {[RefEndpoint EXCEPT !.query = q] : q \in QuerySeqs}

\* An instance constructed with any of the references above.
InitFreshen ==
  /\ apiLink \in [{1} -> QueryRefs]
  /\ currentDataURL = [i \in {1} |-> Null]
  /\ timer = [i \in {1} |-> Null]
  /\ intervals = {}
  /\ calls = <<>>
  /\ clock = 0
  /\ starts = [i \in {1} |-> 0]
  /\ lastCall = [i \in {1} |-> [op |-> "construct", mark |-> 0]]
  /\ last = [op |-> "construct", inst |-> 1, threw |-> FALSE]
  /\ unhandled = {}
  /\ process = "running"
  /\ completed = <<>>

NextFreshen ==
  \/ Generate(1)
  \/ Elapse

SpecFreshen == InitFreshen /\ [][NextFreshen]_vars

\* The instance's operations and their continuations together with the
\* static generateOnce; time passes through the ticks of an armed interval.
NextOnce ==
  \/ \E i \in Objs, ref \in BaseRefs : Construct(i, ref)
  \/ \E i \in Objs : Generate(i)
  \/ \E i \in Objs : Start(i)
  \/ \E i \in Objs : Stop(i)
  \/ \E i \in Objs : Destroy(i)
  \/ \E h \in intervals : Tick(h)
  \/ \E c \in CallIds, ok \in BOOLEAN, msg \in CodecMessages : CodecSettle(c, ok, msg)
  \/ \E c \in CallIds : GenerateResume(c)
  \/ \E ref \in BaseRefs : GenerateOnce(ref)
  \/ \E c \in CallIds : GenerateOnceResume(c)

SpecOnce == Init /\ [][NextOnce]_vars

\* ------------------------------------------------------- several instances
\* The endpoints of two generators that live side by side.
RefAuth == [type |-> "string", scheme |-> "https", rest |-> "//api.example.com/auth", query |-> <<>>]
RefData == [type |-> "string", scheme |-> "https", rest |-> "//api.example.com/data", query |-> <<>>]

\* The endpoint each generator is constructed with.
EndpointOf(i) == IF i = 1 THEN RefAuth ELSE RefData

\* Two instances not yet constructed.
InitMulti == InitFor({1, 2})

\* Either instance is constructed and operated in any interleaving; time
\* passes through the ticks of the armed intervals.
NextMulti ==
  \/ \E i \in Objs : Construct(i, EndpointOf(i))
  \/ \E i \in Objs : Generate(i)
  \/ \E i \in Objs : Start(i)
  \/ \E i \in Objs : Stop(i)
  \/ \E i \in Objs : Destroy(i)
  \/ \E h \in intervals : Tick(h)
  \/ \E c \in CallIds, ok \in BOOLEAN, msg \in CodecMessages : CodecSettle(c, ok, msg)
  \/ \E c \in CallIds : GenerateResume(c)

SpecMulti == InitMulti /\ [][NextMulti]_vars

TypeOK ==
  /\ \A i \in Objs : Constructed(i) => ~Falsy(apiLink[i])
  /\ Len(calls) <= MaxCalls
  /\ clock \in 0..MaxClock

\* ---------------------------------------------------------------- claims
ImmediateOf(i) == {c \in CallsOf(i) : calls[c].origin = "immediate"}

LatestImmediate(i) == CHOOSE c \in ImmediateOf(i) : \A d \in ImmediateOf(i) : d <= c

Failed(i) == {c \in CallsOf(i) : calls[c].st \in {"encodeFailed", "rejected"}}

\* does call c turn rejected in this step
BecomesRejected(c) ==
  /\ calls'[c].st = "rejected"
  /\ (c > Len(calls) \/ calls[c].st # "rejected")

BecomesResolved(c) ==
  /\ calls'[c].st = "resolved"
  /\ (c > Len(calls) \/ calls[c].st # "resolved")

\* C1 (as stated): once stop() has returned and the caller makes no further
\* start()/generate()/destroy() call, getCurrent() never changes, whatever
\* generate() calls were in flight.
C1_StopFreezesSlot ==
  [][\A i \in Objs :
       (lastCall[i].op = "stop" /\ lastCall'[i].op = "stop")
         => currentDataURL'[i] = currentDataURL[i]]_vars

\* C1 (amended): once stop() has returned, the caller makes no further
\* start()/generate()/destroy() call and every generate() that was in flight
\* when stop() was called has completed, getCurrent() never changes again,
\* however many periods elapse.
C1_StopRetainsSlot ==
  [][\A i \in Objs :
       ( /\ lastCall[i].op = "stop"
         /\ lastCall'[i].op = "stop"
         /\ \A c \in InFlight(i) : c > lastCall[i].mark )
         => currentDataURL'[i] = currentDataURL[i]]_vars

C1_Witness ==
  /\ lastCall[1].op = "stop"
  /\ last.op = "elapse"
  /\ starts[1] > 0
  /\ InFlight(1) = {}
  /\ IsDataURL(getCurrent(1))

\* C2: the rejection of a generate() run as a scheduled tick is caught at the
\* scheduler-invocation boundary: none reaches the host as an unhandled
\* rejection and the process, hence the scheduler, keeps running.
C2_TickRejectionCaught ==
  /\ unhandled = {}
  /\ process = "running"

\* C3: at most one recurring interval is armed per instance, it is the one
\* the timer field holds, every start() has run the action immediately
\* exactly once, and right after start() exactly the newest interval is armed.
C3_OneInterval ==
  \A i \in Objs :
    /\ Cardinality(IntervalsOf(i)) <= 1
    /\ Constructed(i) =>
         IntervalsOf(i) = (IF timer[i] = Null THEN {} ELSE {timer[i]})
    /\ Cardinality(ImmediateOf(i)) = starts[i]
    /\ (last.op = "start" /\ last.inst = i) =>
         IntervalsOf(i) = {<<i, starts[i]>>}

C3_Witness ==
  /\ last.op = "start"
  /\ starts[1] = 2
  /\ Cardinality(ImmediateOf(1)) = 2
  /\ intervals = {<<1, 2>>}

\* C4 (as stated): when a periodic tick fires after start() on an instance
\* whose generation succeeds, getCurrent() is already non-absent.
C4_FilledBeforeFirstTick ==
  \A i \in Objs :
    ( /\ last.op = "tick"
      /\ last.inst = i
      /\ lastCall[i].op = "start"
      /\ Failed(i) = {} )
      => IsDataURL(getCurrent(i))

\* C4 (amended): while the scheduler runs, start() has issued an immediate
\* generate(), and from the moment that call completes successfully
\* getCurrent() is non-absent; nothing makes it complete before the first
\* periodic tick.
C4_ImmediateFillsSlot ==
  \A i \in Objs :
    (Constructed(i) /\ timer[i] # Null) =>
      /\ ImmediateOf(i) # {}
      /\ calls[LatestImmediate(i)].st = "resolved" => IsDataURL(getCurrent(i))

C4_Witness ==
  /\ timer[1] # Undefined
  /\ timer[1] # Null
  /\ clock = 0
  /\ \A c \in CallsOf(1) : calls[c].origin = "immediate"
  /\ ImmediateOf(1) # {}
  /\ calls[LatestImmediate(1)].st = "resolved"
  /\ IsDataURL(getCurrent(1))

\* C5: getCurrent() called directly after start() returns, on a fresh
\* instance with a valid link, returns the data URL string.
C5_StartFillsSynchronously ==
  \A i \in Objs :
    ( /\ last.op = "start"
      /\ last.inst = i
      /\ starts[i] = 1
      /\ UrlParses(apiLink[i]) )
      => IsDataURL(getCurrent(i))

\* C6: right after destroy() returns, no interval of the instance is armed,
\* the timer holds no handle and getCurrent() returns null.
C6_DestroyResets ==
  \A i \in Objs :
    (last.op = "destroy" /\ last.inst = i) =>
      /\ IntervalsOf(i) = {}
      /\ timer[i] = Null
      /\ getCurrent(i) = Null

C6_Witness ==
  /\ last.op = "destroy"
  /\ starts[1] > 0
  /\ Resolved(1) # {}
  /\ getCurrent(1) = Null

\* C7: a constructor call with an absent or empty reference throws and
\* leaves no instance, no timer, no interval and no generate() call; a
\* constructor call that returns has stored a non-empty reference.
C7_ConstructorFailsFast ==
  \A i \in Objs :
    /\ (last.op = "construct" /\ last.inst = i /\ last.threw) =>
         /\ timer[i] = Undefined
         /\ currentDataURL[i] = Undefined
         /\ apiLink[i] = RefUndefined
         /\ CallsOf(i) = {}
         /\ IntervalsOf(i) = {}
    /\ timer[i] # Undefined => apiLink[i] \notin {RefUndefined, RefEmpty}

C7_Witness ==
  /\ last.op = "construct"
  /\ last.threw
  /\ timer[1] = Undefined
  /\ calls = <<>>

\* C8: no instance results from constructing with a string that is not a
\* valid URL: the constructor throws.
C8_InvalidUrlThrowsAtConstruction ==
  \A i \in Objs : timer[i] # Undefined => UrlParses(apiLink[i])

\* C9: a generate() that fails ends as a rejected promise carrying an Error,
\* without a synchronous throw, and the step in which it is rejected leaves
\* the current slot as it was; a failed encode never ends resolved.
C9_FailureRejects ==
  [][\A c \in 1..Len(calls') :
       /\ BecomesRejected(c) =>
            /\ currentDataURL'[calls'[c].inst] = currentDataURL[calls'[c].inst]
            /\ IsError(calls'[c].result)
            /\ ~last'.threw
       /\ (c <= Len(calls) /\ calls[c].st = "encodeFailed") =>
            calls'[c].st \in {"encodeFailed", "rejected"}]_vars

C9_Witness ==
  \E c \in CallIds :
    /\ calls[c].st = "rejected"
    /\ calls[c].origin = "manual"
    /\ calls[c].result[2] = "Failed to generate QR code: "
    /\ IsDataURL(getCurrent(calls[c].inst))

\* C10: the current slot of an instance is null or the value some resolved
\* generate() of that instance resolved with, and a generate() that resolves
\* with v has stored v in the slot in the step in which it resolves.
C10_SlotHoldsResolved ==
  /\ [](\A i \in Objs :
          Constructed(i) =>
            \/ getCurrent(i) = Null
            \/ \E c \in Resolved(i) : calls[c].result = getCurrent(i))
  /\ [][\A c \in 1..Len(calls') :
          BecomesResolved(c) =>
            /\ IsDataURL(calls'[c].result)
            /\ currentDataURL'[calls'[c].inst] = calls'[c].result]_vars

C10_Witness ==
  /\ last.op = "resume"
  /\ Cardinality(Resolved(1)) >= 2
  /\ \E c \in Resolved(1) : calls[c].result = getCurrent(1)

\* the successful generate() calls of instance i, in completion order
CompletedOf(i) == SelectSeq(completed, LAMBDA c : calls[c].inst = i)

\* C11: whenever the slot of an instance holds an image, it is the result of
\* the successful generate() of that instance that completed last, whatever
\* the order in which the calls were started.
C11_LastCompletionWins ==
  \A i \in Objs :
    (Constructed(i) /\ getCurrent(i) # Null) =>
      /\ CompletedOf(i) # <<>>
      /\ getCurrent(i) = calls[CompletedOf(i)[Len(CompletedOf(i))]].result

C11_Witness ==
  /\ completed = <<2, 1>>
  /\ calls[1].inst = 1
  /\ calls[2].inst = 1
  /\ InFlight(1) = {}
  /\ getCurrent(1) = calls[1].result
  /\ getCurrent(1) # calls[2].result

\* does this step start or advance a generateOnce call
OnceTouched(c) ==
  /\ calls'[c].origin = "once"
  /\ (c > Len(calls) \/ calls'[c] # calls[c])

\* C12: a step of generateOnce starts at most one freshen-and-encode, whose
\* promise the caller holds, and changes no instance's reference, slot or
\* timer, no armed interval and no call of an instance.
C12_GenerateOnceFrame ==
  [][(\E c \in 1..Len(calls') : OnceTouched(c)) =>
       /\ apiLink' = apiLink
       /\ currentDataURL' = currentDataURL
       /\ timer' = timer
       /\ intervals' = intervals
       /\ starts' = starts
       /\ completed' = completed
       /\ unhandled' = unhandled
       /\ Len(calls') <= Len(calls) + 1
       /\ \A d \in 1..Len(calls') :
            /\ OnceTouched(d) => calls'[d].holder = "caller"
            /\ (d <= Len(calls) /\ calls[d].origin # "once") => calls'[d] = calls[d]]_vars

C12_Witness ==
  \E c \in CallIds :
    /\ calls[c].origin = "once"
    /\ calls[c].st = "resolved"
    /\ IsDataURL(getCurrent(1))
    /\ getCurrent(1) # calls[c].result
    /\ timer[1] # Null

\* C13: every call that reaches the image codec passes it the fixed visual
\* profile {image/png, 256, 1, #000000, #FFFFFF}.
C13_CodecGetsFixedProfile ==
  \A c \in CallIds : UrlParses(calls[c].link) => calls[c].opts = FixedProfile

\* C14: while the timer of an instance is idle, and from stop() or destroy()
\* until the next start(), no step starts a scheduled generate() of it: the
\* only calls that can begin are the caller's own.
C14_NoTickWhileIdle ==
  [][\A i \in Objs : \A c \in 1..Len(calls') :
       (c > Len(calls) /\ calls'[c].inst = i) =>
         /\ (timer[i] = Null /\ timer'[i] = Null) => calls'[c].origin = "manual"
         /\ lastCall[i].op \in {"stop", "destroy"} => lastCall'[i].op \in {"start", "generate"}]_vars

C14_Witness ==
  /\ lastCall[1].op \in {"stop", "destroy"}
  /\ timer[1] = Null
  /\ intervals = {}
  /\ last.op = "elapse"
  /\ \E c \in CallsOf(1) : calls[c].origin = "periodic"

\* C15: stop() and destroy() leave every generate() call as it was; a call
\* in flight can always run on, and when it resolves after stop() or
\* destroy() returned it writes its result into the current slot.
C15_InFlightSurvivesStop ==
  /\ [](\A c \in CallIds :
          (process = "running" /\ calls[c].st \in {"encoded", "encodeFailed"})
            => ENABLED GenerateResume(c))
  /\ [][\A c \in 1..Len(calls) :
          /\ last'.op \in {"stop", "destroy"} => calls'[c] = calls[c]
          /\ (BecomesResolved(c) /\ lastCall[calls[c].inst].op \in {"stop", "destroy"})
               => currentDataURL'[calls[c].inst] = calls'[c].result]_vars

C15_Witness ==
  /\ last.op = "resume"
  /\ lastCall[1].op = "destroy"
  /\ timer[1] = Null
  /\ starts[1] > 0
  /\ \E c \in Resolved(1) : getCurrent(1) = calls[c].result

\* C16: an armed interval can fire whenever a period may elapse, whatever
\* calls are pending; no period elapses on an armed interval without a tick,
\* and a tick starts exactly one new generate() and touches no earlier call.
C16_TicksNotSerialized ==
  /\ [](\A h \in intervals :
          (process = "running" /\ clock < MaxClock /\ Len(calls) < MaxCalls)
            => ENABLED Tick(h))
  /\ [][(clock' # clock /\ intervals # {}) =>
          /\ Len(calls') = Len(calls) + 1
          /\ calls'[Len(calls')].origin = "periodic"
          /\ SubSeq(calls', 1, Len(calls)) = calls]_vars

C16_Witness ==
  /\ last.op = "tick"
  /\ Len(calls) = 2
  /\ calls[1].st = "encoding"
  /\ calls[2].origin = "periodic"
  /\ calls[2].st = "encoding"

\* C18: after destroy() the instance still accepts start() and generate();
\* a start() that follows destroy() arms one interval and issues the
\* immediate generate(), and a generate() that resolves while the slot is
\* null fills it.
C18_DestroyNotTerminal ==
  /\ [](\A i \in Objs :
          ( /\ timer[i] # Undefined
            /\ lastCall[i].op = "destroy"
            /\ process = "running"
            /\ Len(calls) < MaxCalls )
            => /\ ENABLED Generate(i)
               /\ starts[i] < MaxStarts => ENABLED Start(i))
  /\ [][\A i \in Objs :
          /\ (lastCall[i].op = "destroy" /\ lastCall'[i].op = "start") =>
               /\ timer'[i] # Null
               /\ IntervalsOf(i)' = {timer'[i]}
               /\ Len(calls') = Len(calls) + 1
               /\ calls'[Len(calls')].origin = "immediate"
          /\ \A c \in 1..Len(calls) :
               (BecomesResolved(c) /\ calls[c].inst = i /\ currentDataURL[i] = Null)
                 => IsDataURL(currentDataURL'[i])]_vars

C18_Witness ==
  /\ last.op = "start"
  /\ Resolved(1) # {}
  /\ getCurrent(1) = Null
  /\ timer[1] # Null
  /\ calls[Len(calls)].origin = "immediate"
  /\ calls[Len(calls)].st = "encoding"

\* C17 (as stated): the timer holds a handle exactly when its interval is
\* armed, it is idle after construction, every start() leaves it running
\* with one immediate invocation per start(), and stop() leaves it idle.
C17_TwoStateMachine ==
  \A i \in Objs :
    /\ IntervalsOf(i) = (IF timer[i] = Null THEN {} ELSE {timer[i]})
    /\ last.op = "init" => timer[i] = Null
    /\ Cardinality(ImmediateOf(i)) = starts[i]
    /\ (last.op = "start" /\ last.inst = i) => timer[i] = <<i, starts[i]>>
    /\ (last.op = "stop" /\ last.inst = i) => timer[i] = Null

\* C17 (amended): as stated, except that start() leaves the timer running
\* when the action returns from its immediate invocation; and stop() on an
\* idle timer raises nothing and changes neither the handle, the armed
\* intervals nor any invocation.
C17_TwoStateMachineReturning ==
  /\ [](\A i \in Objs :
          /\ IntervalsOf(i) = (IF timer[i] = Null THEN {} ELSE {timer[i]})
          /\ last.op = "init" => timer[i] = Null
          /\ Cardinality(ImmediateOf(i)) = starts[i]
          /\ (last.op = "start" /\ last.inst = i /\ ~last.threw)
               => timer[i] = <<i, starts[i]>>
          /\ (last.op = "stop" /\ last.inst = i) => timer[i] = Null)
  /\ [][\A i \in Objs :
          (last'.op = "stop" /\ last'.inst = i /\ timer[i] = Null) =>
            /\ ~last'.threw
            /\ timer' = timer
            /\ intervals' = intervals
            /\ calls' = calls
            /\ process' = process]_vars

C17_Witness ==
  /\ last.op = "stop"
  /\ last.inst = 1
  /\ timer[1] = Null
  /\ starts[1] = 2
  /\ Len(calls) = 2
  /\ calls[1].inst = 1
  /\ calls[1].st = "returned"
  /\ calls[2].inst = 1
  /\ calls[2].st = "threw"

\* C20: right after a start() whose action threw in its immediate
\* invocation, the exception has left start(), no interval of the timer is
\* armed, the earlier one included, and the handle is null; start() throws
\* exactly when that invocation threw.
C20_ThrowingActionLeavesIdle ==
  \A i \in Objs :
    (last.op = "start" /\ last.inst = i) =>
      /\ last.threw <=> calls[Len(calls)].st = "threw"
      /\ calls[Len(calls)].origin = "immediate"
      /\ last.threw => (timer[i] = Null /\ IntervalsOf(i) = {})

C20_Witness ==
  /\ last.op = "start"
  /\ last.threw
  /\ Len(calls) = 2
  /\ calls[1].origin = "immediate"
  /\ calls[1].inst = 1
  /\ calls[1].st = "returned"
  /\ calls[2].inst = 1
  /\ calls[2].st = "threw"
  /\ intervals = {}
  /\ timer[1] = Null

\* the caller's own parameters of a query
Others(q) == SelectSeq(q, LAMBDA p : p[1] \notin {"timestamp", "uuid"})

Count(q, k) == Cardinality({j \in 1..Len(q) : q[j][1] = k})

\* C19: the link of every generate() keeps the base's scheme, host and path
\* and its parameters other than timestamp and uuid, in order and with their
\* values, and carries exactly one timestamp, a clock reading rendered in
\* decimal, and exactly one uuid, the one drawn for this call.
C19_FreshenKeepsParams ==
  \A c \in CallIds :
    LET b == apiLink[calls[c].inst]
        l == calls[c].link IN
    /\ UrlParses(l)
    /\ l.scheme = b.scheme
    /\ l.rest = b.rest
    /\ Others(l.query) = Others(b.query)
    /\ Count(l.query, "timestamp") = 1
    /\ Count(l.query, "uuid") = 1
    /\ \E t \in 0..clock : l.query[FirstIdx(l.query, "timestamp")][2] = NumToString(t)
    /\ l.query[FirstIdx(l.query, "uuid")][2] = Uuidv4(c)

C19_Witness ==
  /\ Count(apiLink[1].query, "timestamp") = 2
  /\ Count(apiLink[1].query, "k") = 1
  /\ Len(calls) = 2
  /\ calls[2].link.query[FirstIdx(calls[2].link.query, "timestamp")][2] = <<"1">>
  /\ Count(calls[2].link.query, "k") = 1

\* C21: a step of one instance, be it its construction, start(), stop(),
\* destroy(), generate(), a tick of its interval or the continuation of one
\* of its generate() calls, leaves the current slot, the base reference, the
\* timer handle and the armed intervals of every other instance unchanged;
\* and the handle an instance holds is one its own start() armed.
C21_InstancesIndependent ==
  /\ [](\A j \in Objs :
          /\ timer[j] \notin {Undefined, Null} => timer[j][1] = j
          /\ \A c \in CallsOf(j) : calls[c].link.rest \in {apiLink[j].rest})
  /\ [][\A i \in Objs : \A j \in Objs \ {i} :
          last'.inst = i =>
            /\ currentDataURL'[j] = currentDataURL[j]
            /\ apiLink'[j] = apiLink[j]
            /\ timer'[j] = timer[j]
            /\ IntervalsOf(j)' = IntervalsOf(j)]_vars

C21_Witness ==
  /\ last.op = "destroy"
  /\ last.inst = 1
  /\ starts[1] = 1
  /\ getCurrent(1) = Null
  /\ apiLink[1] = RefAuth
  /\ apiLink[2] = RefData
  /\ timer[2] = <<2, 1>>
  /\ IntervalsOf(2) = {<<2, 1>>}
  /\ IsDataURL(getCurrent(2))
  /\ getCurrent(2)[2].rest = RefData.rest

====
